---- MODULE Spec2Model ----
(***************************************************************************)
(* bitbucket-sunset: the permission expansion merge (expand_groups.expand), *)
(* the idempotent apply (apply_github_permissions.apply_permissions) and   *)
(* the page loop of the Bitbucket client (bitbucket.BitbucketDC._paginate). *)
(*                                                                         *)
(* Strings the code only compares for equality or truthiness (permission   *)
(* names, group names, principals, GitHub logins and levels) are TLA+      *)
(* strings.  Strings the code strips, lower-cases, concatenates or sorts   *)
(* (project_key, repo_slug, email) are sequences of character codes.       *)
(***************************************************************************)
EXTENDS Integers, Sequences, FiniteSets, TLC

\* Python's None, for the Optional[str] values of the code.
None == "<None>"

(***************************************************************************)
(* Bounds of the model.                                                    *)
(***************************************************************************)
\* total number of rows in the three CSV files expand() reads
MaxRows == 3

(***************************************************************************)
(* Character strings.                                                      *)
(***************************************************************************)
\* str.strip() removes these from both ends: tab, LF, VT, FF, CR, space
Whitespace == {9, 10, 11, 12, 13, 32}

RECURSIVE lstrip(_)
lstrip(s) ==
    IF s = <<>> THEN <<>>
    ELSE IF Head(s) \in Whitespace THEN lstrip(Tail(s)) ELSE s

RECURSIVE rstrip(_)
rstrip(s) ==
    IF s = <<>> THEN <<>>
    ELSE IF s[Len(s)] \in Whitespace THEN rstrip(SubSeq(s, 1, Len(s) - 1)) ELSE s

strip(s) == rstrip(lstrip(s))

\* str.lower() on ASCII: 'A'..'Z' move to 'a'..'z'
lower(s) == [i \in 1..Len(s) |-> IF s[i] \in 65..90 THEN s[i] + 32 ELSE s[i]]

\* s < t for Python strings: code point by code point, a proper prefix first
RECURSIVE StrLess(_, _)
StrLess(s, t) ==
    IF t = <<>> THEN FALSE
    ELSE IF s = <<>> THEN TRUE
    ELSE IF Head(s) # Head(t) THEN Head(s) < Head(t)
    ELSE StrLess(Tail(s), Tail(t))

(***************************************************************************)
(* utils.py                                                                *)
(***************************************************************************)
PERM_ORDER == <<"REPO_READ", "REPO_WRITE", "REPO_ADMIN">>

InPermOrder(p) == \E i \in 1..Len(PERM_ORDER) : PERM_ORDER[i] = p

\* PERM_ORDER.index(p), defined when p is in the list
PermIndex(p) == CHOOSE i \in 1..Len(PERM_ORDER) : PERM_ORDER[i] = p

\* max_perm raises and catches ValueError (and logs a warning) exactly when
\* current is not None and one of the two strings is not in PERM_ORDER
max_perm_warns(current, new_perm) ==
    /\ current # None
    /\ ~InPermOrder(current) \/ ~InPermOrder(new_perm)

\* max() returns the first of the two on a tie, which is current
max_perm(current, new_perm) ==
    IF current = None THEN new_perm
    ELSE IF ~InPermOrder(current) \/ ~InPermOrder(new_perm) THEN current
    ELSE IF PermIndex(new_perm) > PermIndex(current) THEN new_perm
    ELSE current

(***************************************************************************)
(* expand_groups.py: the input files                                       *)
(***************************************************************************)
ProjectKeys == {<<80>>}                           \* "P"
RepoSlugs == {<<114>>, <<115>>}                   \* "r", "s"
DirectEmails == {<<>>, <<97, 32>>}                \* "", "a "
MemberEmails == {<<32>>, <<97>>, <<98>>}          \* " ", "a", "b"
DirectPerms == {"", "REPO_WRITE"}
GroupPerms == {"REPO_READ", "REPO_ADMIN", "REPO_CREATE"}
Users == {"ann", "bob"}
Groups == {"", "dev"}

\* rows of repo_user_permissions.csv
DirectRows ==
    [project_key : ProjectKeys, repo_slug : RepoSlugs, principal : Users,
     email : DirectEmails, permission : DirectPerms]

\* rows of repo_group_permissions.csv
GroupPermRows ==
    [project_key : ProjectKeys, repo_slug : RepoSlugs, principal : Groups,
     permission : GroupPerms]

\* rows of group_members.csv (the user column is never read)
MemberRows == [group : Groups, email : MemberEmails]

SeqsUpTo(S, n) == UNION {[1..k -> S] : k \in 0..n}

VARIABLES
    direct,             \* List[Dict]: rows of the direct-permission file
    group_perms,        \* List[Dict]: rows of the group-permission file
    group_members,      \* rows of the membership file
    members_by_group,   \* Dict[str, List[Dict]]
    effective,          \* Dict keyed by (project_key, repo_slug, email), in insertion order
    di,                 \* number of direct rows folded so far
    gi,                 \* number of group-permission rows folded so far
    warnings,           \* what logger.warning was called with, in order
    out_rows,           \* the sorted row list
    output_csv,         \* the file written by write_csv, None while unwritten
    epc,                \* position in expand()
    rows,               \* apply_permissions: rows of the effective CSV
    mapping_csv,        \* rows of the email -> github_login CSV
    default_missing,    \* the default login, <<>> when not configured
    dry_run,            \* apply_permissions' dry_run argument
    email_to_login,     \* Dict[str, str] built by load_email_to_login
    by_repo,            \* sorted(by_repo.items()): [name, entries] with entries indexing rows
    ri,                 \* repositories finished so far
    ei,                 \* entries of the current repository finished so far
    gh,                 \* GitHub: collaborator level per <<repository, login>>
    outcome,            \* per row of the effective CSV: how its loop iteration ended
    writes,             \* the add_to_collaborators calls made, in order
    apc,                \* position in apply_permissions()
    server_items,       \* _paginate: the list the Bitbucket server holds for the path
    limit,              \* params.get("limit", 1000)
    start,              \* the start of the next request
    data,               \* the JSON object of the last response, <<>> before the first
    values,             \* data.get("values", [])
    vi,                 \* values of the current page yielded so far
    yielded,            \* everything the generator has yielded, in order
    requests,           \* the page_params of the _get calls made, in order
    ppc                 \* position in _paginate()

evars == <<direct, group_perms, group_members, members_by_group, effective,
           di, gi, warnings, out_rows, output_csv, epc>>

avars == <<rows, mapping_csv, default_missing, dry_run, email_to_login, by_repo,
           ri, ei, gh, outcome, writes, apc>>

pvars == <<server_items, limit, start, data, values, vi, yielded, requests, ppc>>

vars == <<evars, avars, pvars>>

\* _paginate is not running
PaginateIdle ==
    /\ server_items = <<>>
    /\ limit = 0
    /\ start = 0
    /\ data = <<>>
    /\ values = <<>>
    /\ vi = 0
    /\ yielded = <<>>
    /\ requests = <<>>
    /\ ppc = "idle"

(***************************************************************************)
(* expand_groups.py: expand                                                *)
(***************************************************************************)
KeyOf(r) == <<r.project_key, r.repo_slug, r.email>>

\* effective.get(key): the stored row, or None
Lookup(eff, key) ==
    IF \E k \in 1..Len(eff) : KeyOf(eff[k]) = key
    THEN (eff[CHOOSE k \in 1..Len(eff) : KeyOf(eff[k]) = key]).permission
    ELSE None

\* effective[key] = row: a dict keeps the position of a key already present
Store(eff, row) ==
    IF \E k \in 1..Len(eff) : KeyOf(eff[k]) = KeyOf(row)
    THEN [k \in 1..Len(eff) |-> IF KeyOf(eff[k]) = KeyOf(row) THEN row ELSE eff[k]]
    ELSE Append(eff, row)

\* members_by_group as built by the loading loop: rs without a group are left out
MembersOf(rs, g) ==
    LET RECURSIVE Sel(_)
        Sel(s) == IF s = <<>> THEN <<>>
                  ELSE IF Head(s).group = g THEN <<Head(s)>> \o Sel(Tail(s))
                  ELSE Sel(Tail(s))
    IN IF g = "" THEN <<>> ELSE Sel(rs)

LoadMembers(rs) == [g \in {rs[k].group : k \in 1..Len(rs)} \ {""} |-> MembersOf(rs, g)]

\* members_by_group.get(group, [])
GetMembers(mbg, g) == IF g \in DOMAIN mbg THEN mbg[g] ELSE <<>>

\* one iteration of the loop over the direct rows: [eff, warn]
FoldDirectRow(eff, row) ==
    LET email == strip(row.email)
        key == <<row.project_key, row.repo_slug, email>>
        prev == Lookup(eff, key)
        perm == row.permission
    IN IF email = <<>>
       THEN [eff |-> eff, warn |-> <<[kind |-> "no_email", what |-> row.principal]>>]
       ELSE [eff |-> Store(eff, [project_key |-> key[1], repo_slug |-> key[2], email |-> email,
                                  permission |-> max_perm(prev, perm),
                                  source |-> "user", source_principal |-> row.principal]),
             warn |-> IF max_perm_warns(prev, perm)
                      THEN <<[kind |-> "unknown_perm", what |-> perm]>> ELSE <<>>]

\* the inner loop over the members of a group: [eff, warn]
RECURSIVE FoldMembers(_, _, _)
FoldMembers(acc, row, members) ==
    IF members = <<>> THEN acc
    ELSE LET m == Head(members)
             email == strip(m.email)
             key == <<row.project_key, row.repo_slug, email>>
             prev == Lookup(acc.eff, key)
             perm == row.permission
         IN IF email = <<>>
            THEN FoldMembers(acc, row, Tail(members))
            ELSE FoldMembers(
                    [eff |-> Store(acc.eff, [project_key |-> key[1], repo_slug |-> key[2],
                                             email |-> email,
                                             permission |-> max_perm(prev, perm),
                                             source |-> "group",
                                             source_principal |-> row.principal]),
                     warn |-> acc.warn \o (IF max_perm_warns(prev, perm)
                                           THEN <<[kind |-> "unknown_perm", what |-> perm]>>
                                           ELSE <<>>)],
                    row, Tail(members))

\* one iteration of the loop over the group-permission rows: [eff, warn]
FoldGroupRow(eff, mbg, row) ==
    LET group == row.principal
        members == GetMembers(mbg, group)
    IN IF group = "" THEN [eff |-> eff, warn |-> <<>>]
       ELSE FoldMembers(
               [eff |-> eff,
                warn |-> IF members = <<>>
                         THEN <<[kind |-> "no_members", what |-> group]>> ELSE <<>>],
               row, members)

\* a sort key that forgets the project and the repository
RowLess_EmailOnly(r, s) == StrLess(r.email, s.email)

\* r sorts before s under key=(project_key, repo_slug, email)
RowLess(r, s) ==
    \/ StrLess(r.project_key, s.project_key)
    \/ /\ r.project_key = s.project_key
       /\ \/ StrLess(r.repo_slug, s.repo_slug)
          \/ r.repo_slug = s.repo_slug /\ StrLess(r.email, s.email)

\* list.sort(key=...): the stable ascending order
RECURSIVE InsertRow(_, _)
InsertRow(sorted, r) ==
    IF sorted = <<>> THEN <<r>>
    ELSE IF RowLess(r, Head(sorted)) THEN <<r>> \o sorted
    ELSE <<Head(sorted)>> \o InsertRow(Tail(sorted), r)

RECURSIVE SortRows(_)
SortRows(rs) ==
    IF rs = <<>> THEN <<>>
    ELSE InsertRow(SortRows(SubSeq(rs, 1, Len(rs) - 1)), rs[Len(rs)])

\* apply_permissions is not running
ApplyIdle ==
    /\ rows = <<>>
    /\ mapping_csv = <<>>
    /\ default_missing = <<>>
    /\ dry_run = FALSE
    /\ email_to_login = <<>>
    /\ by_repo = <<>>
    /\ ri = 0
    /\ ei = 0
    /\ gh = <<>>
    /\ outcome = <<>>
    /\ writes = <<>>
    /\ apc = "idle"

ExpandInit ==
    /\ ApplyIdle
    /\ PaginateIdle
    /\ direct \in SeqsUpTo(DirectRows, MaxRows)
    /\ group_perms \in SeqsUpTo(GroupPermRows, MaxRows - Len(direct))
    /\ group_members \in SeqsUpTo(MemberRows, MaxRows - Len(direct) - Len(group_perms))
    /\ members_by_group = <<>>
    /\ effective = <<>>
    /\ di = 0
    /\ gi = 0
    /\ warnings = <<>>
    /\ out_rows = <<>>
    /\ output_csv = None
    /\ epc = "load"

\* lines 20-31: the three files are read, the members grouped
ExpandLoad ==
    /\ epc = "load"
    /\ members_by_group' = LoadMembers(group_members)
    /\ epc' = "direct"
    /\ UNCHANGED <<direct, group_perms, group_members, effective, di, gi, warnings,
                   out_rows, output_csv>>
    /\ UNCHANGED avars
    /\ UNCHANGED pvars

\* lines 37-54: one direct row
ExpandDirect ==
    /\ epc = "direct"
    /\ di < Len(direct)
    /\ LET res == FoldDirectRow(effective, direct[di + 1])
       IN /\ effective' = res.eff
          /\ warnings' = warnings \o res.warn
    /\ di' = di + 1
    /\ UNCHANGED <<direct, group_perms, group_members, members_by_group, gi,
                   out_rows, output_csv, epc>>
    /\ UNCHANGED avars
    /\ UNCHANGED pvars

\* line 57: the direct rows are exhausted
ExpandDirectDone ==
    /\ epc = "direct"
    /\ di = Len(direct)
    /\ epc' = "group"
    /\ UNCHANGED <<direct, group_perms, group_members, members_by_group, effective,
                   di, gi, warnings, out_rows, output_csv>>
    /\ UNCHANGED avars
    /\ UNCHANGED pvars

\* lines 57-80: one group-permission row, joined with the members of its group
ExpandGroup ==
    /\ epc = "group"
    /\ gi < Len(group_perms)
    /\ LET res == FoldGroupRow(effective, members_by_group, group_perms[gi + 1])
       IN /\ effective' = res.eff
          /\ warnings' = warnings \o res.warn
    /\ gi' = gi + 1
    /\ UNCHANGED <<direct, group_perms, group_members, members_by_group, di,
                   out_rows, output_csv, epc>>
    /\ UNCHANGED avars
    /\ UNCHANGED pvars

\* lines 82-92: sort, then write unless dry_run
ExpandFinish ==
    /\ epc = "group"
    /\ gi = Len(group_perms)
    /\ out_rows' = SortRows(effective)
    /\ \E expand_dry_run \in BOOLEAN :
          output_csv' = IF expand_dry_run THEN None ELSE SortRows(effective)
    /\ epc' = "done"
    /\ UNCHANGED <<direct, group_perms, group_members, members_by_group, effective,
                   di, gi, warnings>>
    /\ UNCHANGED avars
    /\ UNCHANGED pvars

ExpandNext == ExpandLoad \/ ExpandDirect \/ ExpandDirectDone \/ ExpandGroup \/ ExpandFinish

SpecExpand == ExpandInit /\ [][ExpandNext]_vars

\* expand() as a function of its three inputs: the row list it produces
RECURSIVE FoldDirect(_, _)
FoldDirect(eff, rs) ==
    IF rs = <<>> THEN eff ELSE FoldDirect(FoldDirectRow(eff, Head(rs)).eff, Tail(rs))

RECURSIVE FoldGroups(_, _, _)
FoldGroups(eff, mbg, rs) ==
    IF rs = <<>> THEN eff
    ELSE FoldGroups(FoldGroupRow(eff, mbg, Head(rs)).eff, mbg, Tail(rs))

ExpandResult(d, g, m) == SortRows(FoldGroups(FoldDirect(<<>>, d), LoadMembers(m), g))

(***************************************************************************)
(* Claims about expand()                                                   *)
(***************************************************************************)
Range(s) == {s[k] : k \in 1..Len(s)}

\* the grants of the input that contribute to a key, each with the
\* attribution it carries: direct rows, and (group row, member row) pairs
DirectGrants(key) ==
    {[permission |-> r.permission, source |-> "user", source_principal |-> r.principal] :
        r \in {x \in Range(direct) :
                 /\ strip(x.email) # <<>>
                 /\ <<x.project_key, x.repo_slug, strip(x.email)>> = key}}

GroupGrants(key) ==
    {[permission |-> g.permission, source |-> "group", source_principal |-> g.principal] :
        g \in {x \in Range(group_perms) :
                 /\ x.principal # ""
                 /\ \E m \in Range(group_members) :
                       /\ m.group = x.principal
                       /\ strip(m.email) # <<>>
                       /\ <<x.project_key, x.repo_slug, strip(m.email)>> = key}}

Grants(key) == DirectGrants(key) \cup GroupGrants(key)

AllKeys ==
    {<<p, r, strip(e)>> : p \in ProjectKeys, r \in RepoSlugs, e \in DirectEmails \cup MemberEmails}

ContributedKeys == {key \in AllKeys : Grants(key) # {}}

KnownPerms(key) == {g.permission : g \in {x \in Grants(key) : InPermOrder(x.permission)}}

Strongest(P) == CHOOSE p \in P : \A q \in P : PermIndex(q) <= PermIndex(p)

\* C1: once every grant is folded, each effective row whose key has a grant
\* with a known permission holds the strongest known permission granted to
\* that key under REPO_READ < REPO_WRITE < REPO_ADMIN.
C1_StrongestWins ==
    epc = "done" =>
        \A k \in 1..Len(out_rows) :
            KnownPerms(KeyOf(out_rows[k])) # {} =>
                out_rows[k].permission = Strongest(KnownPerms(KeyOf(out_rows[k])))

Reorderings(s) ==
    {[k \in 1..Len(s) |-> s[f[k]]] :
        f \in {h \in [1..Len(s) -> 1..Len(s)] : \A a, b \in 1..Len(s) : h[a] = h[b] => a = b}}

\* C2: every reordering of the rows of the three input files yields the same
\* row list: same keys, same permission, source and source_principal.
C2_OrderIndependent ==
    epc = "done" =>
        \A d \in Reorderings(direct), g \in Reorderings(group_perms),
           m \in Reorderings(group_members) :
            ExpandResult(d, g, m) = out_rows

PermGreater(p, q) == InPermOrder(p) /\ InPermOrder(q) /\ PermIndex(p) > PermIndex(q)

\* C3: a fold step changes the source attribution stored for a key only when
\* it raises the permission stored for that key to a strictly greater one.
C3_AttributionOnlyOnGreater ==
    [][\A a \in 1..Len(effective) : \A b \in 1..Len(effective') :
          (/\ KeyOf(effective[a]) = KeyOf(effective'[b])
           /\ <<effective[a].source, effective[a].source_principal>>
                # <<effective'[b].source, effective'[b].source_principal>>)
          => PermGreater(effective'[b].permission, effective[a].permission)]_vars

\* C4: the produced row list has exactly one row per key that some grant with
\* a non-blank email contributes to, no other row, and is strictly ascending
\* by (project_key, repo_slug, email).
C4_OneRowPerKeySorted ==
    epc = "done" =>
        /\ {KeyOf(out_rows[k]) : k \in 1..Len(out_rows)} = ContributedKeys
        /\ Len(out_rows) = Cardinality(ContributedKeys)
        /\ \A k \in 1..Len(out_rows) :
              k < Len(out_rows) =>
                    LET a == KeyOf(out_rows[k])
                        b == KeyOf(out_rows[k + 1])
                    IN \/ StrLess(a[1], b[1])
                       \/ a[1] = b[1] /\ StrLess(a[2], b[2])
                       \/ a[1] = b[1] /\ a[2] = b[2] /\ StrLess(a[3], b[3])

\* a run in which the sort reordered the rows, two grants merged into one
\* row, and a padded email was keyed by its stripped form
C4_Witness ==
    /\ epc = "done"
    /\ Len(out_rows) >= 2
    /\ out_rows # effective
    /\ \E a, b \in 1..Len(direct) :
          /\ a < b
          /\ direct[a].email # strip(direct[a].email)
          /\ strip(direct[a].email) # <<>>
          /\ direct[a].repo_slug = direct[b].repo_slug
          /\ strip(direct[a].email) = strip(direct[b].email)

MemberlessGroups ==
    {g \in {r.principal : r \in Range(group_perms)} \ {""} :
        \A m \in Range(group_members) : m.group # g}

WarningCount(w) == Cardinality({k \in 1..Len(warnings) : warnings[k] = w})

\* C10: a group named by group-permission rows but absent from the membership
\* file yields no effective row and exactly one warning, however many rows
\* name it.
C10_OneWarningPerMemberlessGroup ==
    epc = "done" =>
        \A g \in MemberlessGroups :
            /\ \A k \in 1..Len(out_rows) :
                  ~(out_rows[k].source = "group" /\ out_rows[k].source_principal = g)
            /\ WarningCount([kind |-> "no_members", what |-> g]) = 1

\* the keys the row of a fold step contributes to
StepKeys(row, emails) ==
    {<<row.project_key, row.repo_slug, strip(e)>> : e \in {x \in emails : strip(x) # <<>>}}

\* the row folded by the step from the current state, and the emails it is folded for
FoldedRow == IF epc = "direct" THEN direct[di + 1] ELSE group_perms[gi + 1]

FoldedEmails ==
    IF epc = "direct" THEN {direct[di + 1].email}
    ELSE {m.email : m \in Range(GetMembers(members_by_group, group_perms[gi + 1].principal))}

\* C11: a fold step for a grant whose permission is none of REPO_READ,
\* REPO_WRITE, REPO_ADMIN leaves the permission stored for every key as it
\* was (a key without a value gets none) and emits a warning about the
\* permission, whether or not a value was stored for the key.
C11_UnknownPermissionRejected ==
    [][(/\ di' + gi' = di + gi + 1
        /\ ~InPermOrder(FoldedRow.permission)
        /\ StepKeys(FoldedRow, FoldedEmails) # {})
       => /\ \A key \in AllKeys : Lookup(effective', key) = Lookup(effective, key)
          /\ Len(warnings') > Len(warnings)
          /\ \A k \in (Len(warnings) + 1)..Len(warnings') :
                warnings'[k] = [kind |-> "unknown_perm", what |-> FoldedRow.permission]]_vars

\* C12: when expand() is done no row has an empty email, and the warnings
\* about a missing email are as many as the grants without one: the direct
\* rows with a blank email, and the (group row, member) pairs whose member
\* has a blank email.
C12_NoEmailDroppedWithWarning ==
    epc = "done" =>
        /\ \A k \in 1..Len(out_rows) : out_rows[k].email # <<>>
        /\ Cardinality({k \in 1..Len(warnings) : warnings[k].kind = "no_email"})
             = Cardinality({k \in 1..Len(direct) : strip(direct[k].email) = <<>>})
               + Cardinality({pair \in (1..Len(group_perms)) \X (1..Len(group_members)) :
                                 /\ group_perms[pair[1]].principal # ""
                                 /\ group_members[pair[2]].group
                                       = group_perms[pair[1]].principal
                                 /\ strip(group_members[pair[2]].email) = <<>>})

(***************************************************************************)
(* apply_github_permissions.py: the inputs                                 *)
(***************************************************************************)
\* number of rows in the effective CSV apply_permissions reads
MaxEntries == 2

Org == <<111>>                                    \* "o"

\* (project_key, repo_slug) of the effective rows: "A"/"B-C" and "A-B"/"C"
\* name the same GitHub repository, "A"/"C" another
RepoIds == {<<<<65>>, <<66, 45, 67>>>>, <<<<65, 45, 66>>, <<67>>>>, <<<<65>>, <<67>>>>}
EffectiveEmails == {<<65, 32>>, <<98>>}           \* "A ", "b"
EffectivePerms == {"", "REPO_READ", "REPO_WRITE", "REPO_ADMIN", "REPO_CREATE"}

\* rows of effective_repo_user_permissions.csv (source and source_principal are never read)
EffectiveRows ==
    {[project_key |-> id[1], repo_slug |-> id[2], email |-> e, permission |-> p] :
        id \in RepoIds, e \in EffectiveEmails, p \in EffectivePerms}

Login_u1 == <<117, 49>>                           \* "u1"
Login_svc == <<115, 118, 99>>                     \* "svc"
Login_eve == <<101, 118, 101>>                    \* "eve"

\* the mapping CSV: absent; "a" -> " u1" and a row without login; "a" and "B" -> "u1"
MappingFiles ==
    { <<>>,
      <<[email |-> <<97>>, github_login |-> <<32>> \o Login_u1],
        [email |-> <<98>>, github_login |-> <<32>>]>>,
      <<[email |-> <<97>>, github_login |-> Login_u1],
        [email |-> <<66>>, github_login |-> Login_u1]>> }

\* GithubTarget.from_project_repo and the f-string of line 57
FullName(r) == Org \o <<47>> \o r.project_key \o <<45>> \o r.repo_slug

RepoNames == {FullName(r) : r \in EffectiveRows}
Logins == {Login_u1, Login_svc, Login_eve}

\* the collaborators GitHub holds before the run
InitialGithub ==
    LET abc == Org \o <<47, 65, 45, 66, 45, 67>>
    IN [pair \in RepoNames \X Logins |->
          IF pair[1] = abc
          THEN (IF pair[2] = Login_u1 THEN "read"
                ELSE IF pair[2] = Login_svc THEN "admin" ELSE "write")
          ELSE (IF pair[2] = Login_u1 THEN "maintain"
                ELSE IF pair[2] = Login_svc THEN None ELSE "triage")]

(***************************************************************************)
(* GitHub, as the code relies on it                                        *)
(***************************************************************************)
\* Repository.get_collaborator_permission(login)
GithubRead(g, repo, login) == g[<<repo, login>>]

\* Repository.add_to_collaborators(login, permission): the level GitHub then reports
GithubLevel(permission) ==
    CASE permission = "pull" -> "read"
      [] permission = "push" -> "write"
      [] permission = "admin" -> "admin"

GithubWrite(g, repo, login, permission) ==
    [g EXCEPT ![<<repo, login>>] = GithubLevel(permission)]

(***************************************************************************)
(* apply_github_permissions.py                                             *)
(***************************************************************************)
\* the table with REPO_WRITE mapped one level too high
BITBUCKET_TO_GITHUB_WriteIsAdmin(bb_perm) ==
    CASE bb_perm = "REPO_READ" -> "pull"
      [] bb_perm = "REPO_WRITE" -> "admin"
      [] bb_perm = "REPO_ADMIN" -> "admin"
      [] OTHER -> None

\* a table that answers every other string with pull
BITBUCKET_TO_GITHUB_OtherIsPull(bb_perm) ==
    CASE bb_perm = "REPO_READ" -> "pull"
      [] bb_perm = "REPO_WRITE" -> "push"
      [] bb_perm = "REPO_ADMIN" -> "admin"
      [] OTHER -> "pull"

\* BITBUCKET_TO_GITHUB.get(bb_perm)
BITBUCKET_TO_GITHUB(bb_perm) ==
    CASE bb_perm = "REPO_READ" -> "pull"
      [] bb_perm = "REPO_WRITE" -> "push"
      [] bb_perm = "REPO_ADMIN" -> "admin"
      [] OTHER -> None

\* the comparison without the normalising table
Norm_Raw(current_perm) == current_perm

\* the dict literal of lines 93-99, with .get(current_perm, current_perm)
Norm(current_perm) ==
    CASE current_perm = "admin" -> "admin"
      [] current_perm = "write" -> "push"
      [] current_perm = "triage" -> "triage"
      [] current_perm = "maintain" -> "maintain"
      [] current_perm = "read" -> "pull"
      [] OTHER -> current_perm

\* load_email_to_login: later rows overwrite earlier ones; rows with an empty
\* email or login are left out
RECURSIVE load_email_to_login(_, _)
load_email_to_login(mapping, rs) ==
    IF rs = <<>> THEN mapping
    ELSE LET email == lower(strip(Head(rs).email))
             login == strip(Head(rs).github_login)
         IN load_email_to_login(
               IF email # <<>> /\ login # <<>>
               THEN [e \in DOMAIN mapping \cup {email} |->
                        IF e = email THEN login ELSE mapping[e]]
               ELSE mapping,
               Tail(rs))

\* a lookup that answers an unknown email with some login of the table
GetLogin_AnyLogin(mapping, email) ==
    IF email \in DOMAIN mapping THEN mapping[email]
    ELSE IF DOMAIN mapping # {} THEN mapping[CHOOSE e \in DOMAIN mapping : TRUE]
    ELSE <<>>

\* email_to_login.get(email), <<>> standing for None
GetLogin(mapping, email) == IF email \in DOMAIN mapping THEN mapping[email] ELSE <<>>

\* by_repo.setdefault(full, []).append(r), over the rows from index i on
RECURSIVE GroupByRepo(_, _, _)
GroupByRepo(acc, rs, i) ==
    IF i > Len(rs) THEN acc
    ELSE LET full == FullName(rs[i])
         IN GroupByRepo(
               IF \E k \in 1..Len(acc) : acc[k].name = full
               THEN [k \in 1..Len(acc) |->
                        IF acc[k].name = full
                        THEN [acc[k] EXCEPT !.entries = Append(@, i)] ELSE acc[k]]
               ELSE Append(acc, [name |-> full, entries |-> <<i>>]),
               rs, i + 1)

\* sorted(by_repo.items()): names are unique, so the name alone decides
RECURSIVE InsertRepo(_, _)
InsertRepo(sorted, r) ==
    IF sorted = <<>> THEN <<r>>
    ELSE IF StrLess(r.name, Head(sorted).name) THEN <<r>> \o sorted
    ELSE <<Head(sorted)>> \o InsertRepo(Tail(sorted), r)

RECURSIVE SortRepos(_)
SortRepos(rs) ==
    IF rs = <<>> THEN <<>>
    ELSE InsertRepo(SortRepos(SubSeq(rs, 1, Len(rs) - 1)), rs[Len(rs)])

Pending == [result |-> "pending", login |-> <<>>, gh_perm |-> None,
            read |-> "none", current |-> None]

\* a decision chain that never looks at dry_run
EntryResult_DryIgnored(needs_update, dry, writeOk) ==
    IF ~needs_update THEN "noop"
    ELSE IF writeOk THEN "applied"
    ELSE "write_failed"

\* lines 106-119: what the iteration does once needs_update is known
EntryResult(needs_update, dry, writeOk) ==
    IF ~needs_update THEN "noop"
    ELSE IF dry THEN "would_apply"
    ELSE IF writeOk THEN "applied"
    ELSE "write_failed"

\* lines 69-119, one iteration of the loop over the entries of a repository.
\* readOk and writeOk say whether the GitHub call, if made, succeeds or raises
\* GithubException.  The result is [gh, outcome, writes].
ProcessEntry(g, mapping, dflt, dry, full_name, e, idx, readOk, writeOk) ==
    LET email == lower(strip(e.email))
        bb_perm == IF e.permission = "" THEN "REPO_READ" ELSE e.permission
        gh_perm == BITBUCKET_TO_GITHUB(bb_perm)
        mapped == GetLogin(mapping, email)
        login == IF mapped # <<>> THEN mapped ELSE dflt
        current_perm == IF readOk THEN GithubRead(g, full_name, login) ELSE None
        needs_update == ~(current_perm # None /\ Norm(current_perm) = gh_perm)
        reached == [result |-> "pending", login |-> login, gh_perm |-> gh_perm,
                    read |-> IF readOk THEN "ok" ELSE "failed", current |-> current_perm]
        result == EntryResult(needs_update, dry, writeOk)
        call == [repo |-> full_name, login |-> login, permission |-> gh_perm,
                 ok |-> writeOk, row |-> idx]
    IN IF gh_perm = None
       THEN [gh |-> g, outcome |-> [Pending EXCEPT !.result = "bad_perm"], writes |-> <<>>]
       ELSE IF login = <<>>
       THEN [gh |-> g, outcome |-> [Pending EXCEPT !.result = "no_login", !.gh_perm = gh_perm],
             writes |-> <<>>]
       ELSE [gh |-> IF result = "applied"
                    THEN GithubWrite(g, full_name, login, gh_perm) ELSE g,
             outcome |-> [reached EXCEPT !.result = result],
             writes |-> IF result \in {"applied", "write_failed"} THEN <<call>> ELSE <<>>]

\* the rows of one repository from entry k on, every GitHub call succeeding
RECURSIVE RunEntries(_, _, _, _, _, _, _)
RunEntries(acc, mapping, dflt, dry, rs, repo, k) ==
    IF k > Len(repo.entries) THEN acc
    ELSE LET idx == repo.entries[k]
             res == ProcessEntry(acc.gh, mapping, dflt, dry, repo.name, rs[idx], idx, TRUE, TRUE)
         IN RunEntries([gh |-> res.gh,
                        outcome |-> [acc.outcome EXCEPT ![idx] = res.outcome],
                        writes |-> acc.writes \o res.writes],
                       mapping, dflt, dry, rs, repo, k + 1)

RECURSIVE RunRepos(_, _, _, _, _, _)
RunRepos(acc, mapping, dflt, dry, rs, repos) ==
    IF repos = <<>> THEN acc
    ELSE RunRepos(RunEntries(acc, mapping, dflt, dry, rs, Head(repos), 1),
                  mapping, dflt, dry, rs, Tail(repos))

\* apply_permissions run to its end from GitHub state g, every GitHub call
\* succeeding: [gh, outcome, writes]
ApplyRun(g, mapping_rows, dflt, dry, rs) ==
    RunRepos([gh |-> g, outcome |-> [i \in 1..Len(rs) |-> Pending], writes |-> <<>>],
             load_email_to_login(<<>>, mapping_rows), dflt, dry, rs,
             SortRepos(GroupByRepo(<<>>, rs, 1)))

\* expand() is not running
ExpandIdle ==
    /\ direct = <<>>
    /\ group_perms = <<>>
    /\ group_members = <<>>
    /\ members_by_group = <<>>
    /\ effective = <<>>
    /\ di = 0
    /\ gi = 0
    /\ warnings = <<>>
    /\ out_rows = <<>>
    /\ output_csv = None
    /\ epc = "idle"

ApplyInit ==
    /\ ExpandIdle
    /\ PaginateIdle
    /\ rows \in {rs \in SeqsUpTo(EffectiveRows, MaxEntries) :
                    \A k \in 1..(Len(rs) - 1) : RowLess(rs[k], rs[k + 1])}
    /\ mapping_csv \in MappingFiles
    /\ default_missing \in {<<>>, Login_svc}
    /\ dry_run \in BOOLEAN
    /\ email_to_login = <<>>
    /\ by_repo = <<>>
    /\ ri = 0
    /\ ei = 0
    /\ gh = InitialGithub
    /\ outcome = [i \in 1..Len(rows) |-> Pending]
    /\ writes = <<>>
    /\ apc = "load"

\* lines 45-58: the mapping and the rows are loaded, the rows grouped by repository
ApplyLoad ==
    /\ apc = "load"
    /\ email_to_login' = load_email_to_login(<<>>, mapping_csv)
    /\ by_repo' = SortRepos(GroupByRepo(<<>>, rows, 1))
    /\ apc' = "repo"
    /\ UNCHANGED <<rows, mapping_csv, default_missing, dry_run, ri, ei, gh, outcome, writes>>
    /\ UNCHANGED evars
    /\ UNCHANGED pvars

\* a get_repo failure that ends the run instead of the repository
ApplyGetRepo_Abort ==
    /\ apc = "repo"
    /\ ri < Len(by_repo)
    /\ \/ /\ apc' = "entries"
          /\ UNCHANGED <<ri, outcome>>
       \/ /\ apc' = "done"
          /\ UNCHANGED <<ri, outcome>>
    /\ ei' = 0
    /\ UNCHANGED <<rows, mapping_csv, default_missing, dry_run, email_to_login, by_repo,
                   gh, writes>>
    /\ UNCHANGED evars
    /\ UNCHANGED pvars

\* lines 60-66: gh.get_repo(full_name) returns, or raises and the repository is skipped
ApplyGetRepo ==
    /\ apc = "repo"
    /\ ri < Len(by_repo)
    /\ \/ /\ apc' = "entries"
          /\ UNCHANGED <<ri, outcome>>
       \/ /\ outcome' = [i \in 1..Len(rows) |->
                            IF \E k \in 1..Len(by_repo[ri + 1].entries) :
                                  by_repo[ri + 1].entries[k] = i
                            THEN [Pending EXCEPT !.result = "repo_failed"]
                            ELSE outcome[i]]
          /\ ri' = ri + 1
          /\ UNCHANGED apc
    /\ ei' = 0
    /\ UNCHANGED <<rows, mapping_csv, default_missing, dry_run, email_to_login, by_repo,
                   gh, writes>>
    /\ UNCHANGED evars
    /\ UNCHANGED pvars

\* lines 68-119: one entry of the current repository
ApplyEntry ==
    /\ apc = "entries"
    /\ ei < Len(by_repo[ri + 1].entries)
    /\ \E readOk \in BOOLEAN, writeOk \in BOOLEAN :
          LET idx == by_repo[ri + 1].entries[ei + 1]
              res == ProcessEntry(gh, email_to_login, default_missing, dry_run,
                                  by_repo[ri + 1].name, rows[idx], idx, readOk, writeOk)
          IN /\ gh' = res.gh
             /\ outcome' = [outcome EXCEPT ![idx] = res.outcome]
             /\ writes' = writes \o res.writes
    /\ ei' = ei + 1
    /\ UNCHANGED <<rows, mapping_csv, default_missing, dry_run, email_to_login, by_repo,
                   ri, apc>>
    /\ UNCHANGED evars
    /\ UNCHANGED pvars

\* line 68: the entries of the current repository are exhausted
ApplyRepoDone ==
    /\ apc = "entries"
    /\ ei = Len(by_repo[ri + 1].entries)
    /\ ri' = ri + 1
    /\ ei' = 0
    /\ apc' = "repo"
    /\ UNCHANGED <<rows, mapping_csv, default_missing, dry_run, email_to_login, by_repo,
                   gh, outcome, writes>>
    /\ UNCHANGED evars
    /\ UNCHANGED pvars

\* line 60: the repositories are exhausted, apply_permissions returns
ApplyFinish ==
    /\ apc = "repo"
    /\ ri = Len(by_repo)
    /\ apc' = "done"
    /\ UNCHANGED <<rows, mapping_csv, default_missing, dry_run, email_to_login, by_repo,
                   ri, ei, gh, outcome, writes>>
    /\ UNCHANGED evars
    /\ UNCHANGED pvars

ApplyNext == ApplyLoad \/ ApplyGetRepo \/ ApplyEntry \/ ApplyRepoDone \/ ApplyFinish

SpecApply == ApplyInit /\ [][ApplyNext]_vars

\* the runs with the second mapping file and rows of one mapped and one
\* unmapped permission
FairApplyInit ==
    /\ ApplyInit
    /\ Len(mapping_csv) = 2
    /\ mapping_csv[2].github_login = <<32>>
    /\ \A k \in 1..Len(rows) : rows[k].permission \in {"REPO_READ", "REPO_CREATE"}

\* the loop runs on whenever it has not returned
FairSpecApply == FairApplyInit /\ [][ApplyNext]_vars /\ WF_vars(ApplyNext)

(***************************************************************************)
(* Claims about apply_permissions                                          *)
(***************************************************************************)
RowIds == 1..Len(rows)

\* no GitHub call of the run so far raised
AllCallsSucceeded ==
    /\ \A i \in RowIds : outcome[i].result # "repo_failed" /\ outcome[i].read # "failed"
    /\ \A k \in 1..Len(writes) : writes[k].ok

\* C5: after a run that is not a dry run and in which every GitHub call
\* succeeded, a second run over the same files issues no add_to_collaborators.
C5_SecondRunWritesNothing ==
    (apc = "done" /\ ~dry_run /\ AllCallsSucceeded) =>
        ApplyRun(gh, mapping_csv, default_missing, FALSE, rows).writes = <<>>

\* the normalisation and the permission table as the specification states them
SpecNorm(level) ==
    CASE level = "admin" -> "admin"
      [] level = "write" -> "push"
      [] level = "triage" -> "triage"
      [] level = "maintain" -> "maintain"
      [] level = "read" -> "pull"

SpecLevel(permission) ==
    CASE permission = "REPO_READ" -> "pull"
      [] permission = "REPO_WRITE" -> "push"
      [] permission = "REPO_ADMIN" -> "admin"
      [] OTHER -> None

ReachedResults == {"noop", "would_apply", "applied", "write_failed"}

\* C6: when a run that is not a dry run finishes a row it reached with a login
\* and a mapped permission, it has called add_to_collaborators(login, desired)
\* exactly if the read failed, the login was no collaborator, or the
\* normalised level GitHub held differed from the desired one.
C6_WriteIffDifferent ==
    [][\A i \in RowIds :
          (/\ ~dry_run
           /\ outcome[i].result = "pending"
           /\ outcome'[i].result \in ReachedResults)
          => LET o == outcome'[i]
                 repo == FullName(rows[i])
                 held == gh[<<repo, o.login>>]
                 called == /\ Len(writes') = Len(writes) + 1
                           /\ writes'[Len(writes')].repo = repo
                           /\ writes'[Len(writes')].login = o.login
                           /\ writes'[Len(writes')].permission = o.gh_perm
             IN /\ o.gh_perm = SpecLevel(IF rows[i].permission = "" THEN "REPO_READ"
                                         ELSE rows[i].permission)
                /\ called <=> (\/ o.read = "failed"
                               \/ held = None
                               \/ SpecNorm(held) # o.gh_perm)
                /\ ~called => writes' = writes]_vars

\* a stronger level was overwritten by a weaker one, a row was left alone
\* because the level was already right, and a failed read led to a write
C6_Witness ==
    /\ ~dry_run
    /\ \E i \in RowIds :
          /\ outcome[i].result = "applied"
          /\ outcome[i].current = "admin"
          /\ outcome[i].gh_perm = "pull"
    /\ \E i \in RowIds :
          /\ outcome[i].result \in {"applied", "noop"}
          /\ outcome[i].read # "failed"
          /\ outcome[i].current = "read"

\* the login a row resolves to, <<>> when it resolves to none
ResolvedLogin(r) ==
    LET mapped == GetLogin(load_email_to_login(<<>>, mapping_csv), lower(strip(r.email)))
    IN IF mapped # <<>> THEN mapped ELSE default_missing

ResolvedPairs == {<<FullName(rows[i]), ResolvedLogin(rows[i])>> : i \in RowIds}

\* C7 as stated: a dry run writes nothing, leaves GitHub as it was, and
\* reports as would-apply exactly the rows a run without dry_run would have
\* written for from the same starting state.
C7_DryRunReportsTheRealWrites ==
    (apc = "done" /\ dry_run /\ AllCallsSucceeded) =>
        /\ writes = <<>>
        /\ gh = InitialGithub
        /\ {i \in RowIds : outcome[i].result = "would_apply"}
             = {w.row : w \in Range(ApplyRun(InitialGithub, mapping_csv, default_missing,
                                             FALSE, rows).writes)}

\* C7 amended: a dry run writes nothing, leaves GitHub as it was, and reports
\* as would-apply exactly the rows for which a run without dry_run, taking
\* that row alone against the starting state, would call add_to_collaborators.
C7_DryRunReportsRowByRow ==
    dry_run =>
        /\ writes = <<>>
        /\ gh = InitialGithub
        /\ \A i \in RowIds :
              outcome[i].result \notin {"pending", "repo_failed"} =>
                 (outcome[i].result = "would_apply"
                    <=> ProcessEntry(InitialGithub, load_email_to_login(<<>>, mapping_csv),
                                     default_missing, FALSE, FullName(rows[i]), rows[i], i,
                                     outcome[i].read # "failed", TRUE).writes # <<>>)

\* a finished dry run that reported one row and left another alone
C7_Witness ==
    /\ apc = "done"
    /\ dry_run
    /\ \E i, j \in RowIds :
          /\ outcome[i].result = "would_apply"
          /\ outcome[j].result = "noop"

\* C8 as stated: no collaborator is removed, a pair no row resolves to keeps
\* its level, and every change of GitHub is add_to_collaborators(login, level)
\* for a row of that repository, its resolved login and the level the table
\* REPO_READ -> pull, REPO_WRITE -> push, REPO_ADMIN -> admin gives its permission.
C8_AdditiveOnly ==
    [][(gh' # gh \/ writes' # writes) =>
         LET resolved == ResolvedPairs
             w == writes'[Len(writes')]
         IN /\ Len(writes') = Len(writes) + 1
            /\ SubSeq(writes', 1, Len(writes)) = writes
            /\ \E i \in RowIds :
                  /\ w.repo = FullName(rows[i])
                  /\ w.login = ResolvedLogin(rows[i])
                  /\ w.permission = SpecLevel(rows[i].permission)
            /\ gh' \in {gh, [gh EXCEPT ![<<w.repo, w.login>>] = GithubLevel(w.permission)]}
            /\ \A pair \in DOMAIN gh :
                  /\ gh[pair] # None => gh'[pair] # None
                  /\ pair \notin resolved => gh'[pair] = gh[pair]]_vars

\* C8 amended: as C8, a row with an empty permission counting as REPO_READ.
C8_AdditiveOnlyEmptyIsRead ==
    [][(gh' # gh \/ writes' # writes) =>
         LET resolved == ResolvedPairs
             w == writes'[Len(writes')]
         IN /\ Len(writes') = Len(writes) + 1
            /\ SubSeq(writes', 1, Len(writes)) = writes
            /\ \E i \in RowIds :
                  /\ w.repo = FullName(rows[i])
                  /\ w.login = ResolvedLogin(rows[i])
                  /\ w.permission = SpecLevel(IF rows[i].permission = "" THEN "REPO_READ"
                                              ELSE rows[i].permission)
            /\ gh' \in {gh, [gh EXCEPT ![<<w.repo, w.login>>] = GithubLevel(w.permission)]}
            /\ \A pair \in DOMAIN gh :
                  /\ gh[pair] # None => gh'[pair] # None
                  /\ pair \notin resolved => gh'[pair] = gh[pair]]_vars

\* a finished run that changed one pair and left a collaborator no row names,
\* and the other login of the same repository, as they were
C8_Witness ==
    /\ apc = "done"
    /\ \E k \in 1..Len(writes) :
          /\ writes[k].ok
          /\ gh[<<writes[k].repo, writes[k].login>>]
                # InitialGithub[<<writes[k].repo, writes[k].login>>]
          /\ gh[<<writes[k].repo, Login_eve>>] = InitialGithub[<<writes[k].repo, Login_eve>>]
          /\ \E l \in {Login_u1, Login_svc} :
                /\ <<writes[k].repo, l>> \notin ResolvedPairs
                /\ InitialGithub[<<writes[k].repo, l>>] # None

TerminalResults ==
    {"noop", "would_apply", "applied", "write_failed", "bad_perm", "no_login", "repo_failed"}

\* C9: the run ends; when it has ended every row has one terminal outcome;
\* and an outcome once reached is never replaced, whatever calls failed.
C9_EveryRowAttemptedOnce ==
    /\ <>(apc = "done")
    /\ [](apc = "done" => \A i \in RowIds : outcome[i].result \in TerminalResults)
    /\ [][\A i \in RowIds : outcome[i].result # "pending" => outcome'[i] = outcome[i]]_vars

\* a finished run in which a repository could not be opened and a row of a
\* later repository was still applied
C9_Witness ==
    /\ apc = "done"
    /\ \E i, j \in RowIds :
          /\ outcome[i].result = "repo_failed"
          /\ outcome[j].result = "applied"
          /\ StrLess(FullName(rows[i]), FullName(rows[j]))

\* the row's email, trimmed and lower-cased, is no key of the mapping
Unmapped(i) == lower(strip(rows[i].email)) \notin DOMAIN email_to_login

\* C13: when the loop finishes a row whose email is not in the mapping and no
\* default login is configured, the row is skipped with no read of the
\* current permission and no add_to_collaborators; when a default login is
\* configured and the permission is mapped, the read and any write are made
\* for the default login on the row's repository.
C13_UnmappedEmailSkipOrDefault ==
    [][\A i \in RowIds :
          (/\ Unmapped(i)
           /\ outcome[i].result = "pending"
           /\ outcome'[i].result \notin {"pending", "repo_failed"})
          => LET o == outcome'[i]
                 repo == FullName(rows[i])
                 mappedPerm == SpecLevel(IF rows[i].permission = "" THEN "REPO_READ"
                                         ELSE rows[i].permission) # None
             IN IF default_missing = <<>>
                THEN /\ o.result \in {"no_login", "bad_perm"}
                     /\ o.read = "none"
                     /\ writes' = writes
                     /\ gh' = gh
                ELSE /\ mappedPerm <=> o.result \in ReachedResults
                     /\ mappedPerm =>
                           /\ o.login = default_missing
                           /\ o.read # "none"
                           /\ o.read = "ok" => o.current = gh[<<repo, default_missing>>]
                           /\ writes' # writes =>
                                 /\ Len(writes') = Len(writes) + 1
                                 /\ writes'[Len(writes')].login = default_missing
                                 /\ writes'[Len(writes')].repo = repo
                           /\ \A pair \in DOMAIN gh :
                                 pair # <<repo, default_missing>> => gh'[pair] = gh[pair]]_vars

\* a finished run without a default login that skipped a row whose email is
\* not in a non-empty mapping and applied another row
C13_Witness ==
    /\ apc = "done"
    /\ default_missing = <<>>
    /\ DOMAIN email_to_login # {}
    /\ \E i, j \in RowIds :
          /\ Unmapped(i)
          /\ outcome[i].result = "no_login"
          /\ outcome[i].gh_perm # None
          /\ outcome[j].result = "applied"

MappedPerms == {"REPO_READ", "REPO_WRITE", "REPO_ADMIN"}

\* C14 as stated: when the loop finishes a row whose permission is none of
\* REPO_READ, REPO_WRITE, REPO_ADMIN (the empty string included), the row is
\* skipped with no read of the current permission and no add_to_collaborators.
C14_UnmappedPermissionSkipped ==
    [][\A i \in RowIds :
          (/\ rows[i].permission \notin MappedPerms
           /\ outcome[i].result = "pending"
           /\ outcome'[i].result \notin {"pending", "repo_failed"})
          => /\ outcome'[i].result = "bad_perm"
             /\ outcome'[i].read = "none"
             /\ writes' = writes
             /\ gh' = gh]_vars

\* C14 amended: a row whose permission is not empty and none of REPO_READ,
\* REPO_WRITE, REPO_ADMIN is skipped with no read and no write; a row with an
\* empty permission is taken as REPO_READ and is not skipped for its permission.
C14_NonEmptyUnmappedPermissionSkipped ==
    [][\A i \in RowIds :
          (/\ rows[i].permission \notin MappedPerms
           /\ outcome[i].result = "pending"
           /\ outcome'[i].result \notin {"pending", "repo_failed"})
          => IF rows[i].permission # ""
             THEN /\ outcome'[i].result = "bad_perm"
                  /\ outcome'[i].read = "none"
                  /\ writes' = writes
                  /\ gh' = gh
             ELSE /\ outcome'[i].result # "bad_perm"
                  /\ outcome'[i].gh_perm = "pull"
                  /\ writes' # writes => writes'[Len(writes')].permission = "pull"]_vars

\* a finished run that skipped a REPO_CREATE row whose login resolves and
\* granted pull for a row with an empty permission
C14_Witness ==
    /\ apc = "done"
    /\ \E i, j \in RowIds :
          /\ rows[i].permission = "REPO_CREATE"
          /\ ResolvedLogin(rows[i]) # <<>>
          /\ outcome[i].result = "bad_perm"
          /\ rows[j].permission = ""
          /\ outcome[j].result = "applied"

(***************************************************************************)
(* bitbucket.py: BitbucketDC._paginate                                     *)
(***************************************************************************)
\* length of the list the server holds
MaxItems == 3
\* the limit parameter of the callers
MaxLimit == 2

ItemValues == {"p", "q"}

\* the server's answer to (start, limit): the items from index start on (0-based)
Page(items, from, size) == SubSeq(items, from + 1, from + size)

\* how many items a page may carry: none past the end of the list, otherwise
\* at least one and at most limit (the server may return fewer than asked)
PageSizes(items, from, lim) ==
    IF from >= Len(items) THEN {0}
    ELSE {n \in 1..lim : from + n <= Len(items)}

\* isLastPage is set exactly on the page that reaches the end of the list
Response(items, from, size, withNext) ==
    IF withNext
    THEN [isLastPage |-> from + size >= Len(items), nextPageStart |-> from + size]
    ELSE [isLastPage |-> from + size >= Len(items)]

\* a loop that keeps start when nextPageStart is absent
NextStart_Stuck(cur, d, vals) ==
    IF "nextPageStart" \in DOMAIN d THEN d.nextPageStart ELSE cur

\* lines 68-73: next_start = data.get("nextPageStart"), or start += len(values)
NextStart(cur, d, vals) ==
    IF "nextPageStart" \in DOMAIN d THEN d.nextPageStart ELSE cur + Len(vals)

\* every caller passes a positive limit and no start (lines 81-120)
PaginateInit ==
    /\ ExpandIdle
    /\ ApplyIdle
    /\ server_items \in SeqsUpTo(ItemValues, MaxItems)
    /\ limit \in 1..MaxLimit
    /\ start = 0
    /\ data = <<>>
    /\ values = <<>>
    /\ vi = 0
    /\ yielded = <<>>
    /\ requests = <<>>
    /\ ppc = "get"

\* lines 60-63: one _get; the server answers with a page, or _get raises
PaginateGet ==
    /\ ppc = "get"
    /\ requests' = Append(requests, [limit |-> limit, start |-> start])
    /\ \/ \E size \in PageSizes(server_items, start, limit), withNext \in BOOLEAN :
             /\ data' = Response(server_items, start, size, withNext)
             /\ values' = Page(server_items, start, size)
             /\ vi' = 0
             /\ ppc' = "yield"
       \/ /\ ppc' = "raised"
          /\ UNCHANGED <<data, values, vi>>
    /\ UNCHANGED <<server_items, limit, start, yielded>>
    /\ UNCHANGED <<evars, avars>>

\* lines 64-65: one value of the page is yielded
PaginateYield ==
    /\ ppc = "yield"
    /\ vi < Len(values)
    /\ yielded' = Append(yielded, values[vi + 1])
    /\ vi' = vi + 1
    /\ UNCHANGED <<server_items, limit, start, data, values, requests, ppc>>
    /\ UNCHANGED <<evars, avars>>

\* lines 66-73: the page is exhausted: break on the last page, else advance start
PaginateAdvance ==
    /\ ppc = "yield"
    /\ vi = Len(values)
    /\ IF data.isLastPage
       THEN /\ ppc' = "done"
            /\ UNCHANGED start
       ELSE /\ start' = NextStart(start, data, values)
            /\ ppc' = "get"
    /\ UNCHANGED <<server_items, limit, data, values, vi, yielded, requests>>
    /\ UNCHANGED <<evars, avars>>

PaginateNext == PaginateGet \/ PaginateYield \/ PaginateAdvance

\* the consumer iterates the generator to its end
FairSpecPaginate == PaginateInit /\ [][PaginateNext]_vars /\ WF_vars(PaginateNext)

(***************************************************************************)
(* Claims about _paginate                                                  *)
(***************************************************************************)
\* the last response carried isLastPage = true
LastPageSeen == "isLastPage" \in DOMAIN data /\ data.isLastPage

\* C15: against a server that answers (start, limit) with the items from
\* start on and sets isLastPage exactly on the page reaching the end, the
\* loop ends; what it has yielded is always a prefix of the server's list and,
\* when it returns, the whole list; every request carries the current start
\* and limit; start moves to nextPageStart, or on by the number of values
\* received when nextPageStart is absent; and no request follows a page whose
\* isLastPage is true.
C15_PaginateYieldsAllOnce ==
    /\ <>(ppc \in {"done", "raised"})
    /\ [](/\ Len(yielded) <= Len(server_items)
          /\ yielded = SubSeq(server_items, 1, Len(yielded)))
    /\ [](ppc = "done" => yielded = server_items /\ LastPageSeen)
    /\ [][/\ requests' # requests =>
              /\ ~LastPageSeen
              /\ requests' = Append(requests, [limit |-> limit, start |-> start])
              /\ start = Len(yielded)
          /\ start' # start =>
              start' = IF "nextPageStart" \in DOMAIN data
                       THEN data.nextPageStart ELSE start + Len(values)
          /\ (ppc = "yield" /\ ppc' = "get") => start' = start + Len(values)]_vars

\* the generator returned the whole list after three requests or more, the
\* first page shorter than the limit and the last one without nextPageStart
C15_Witness ==
    /\ ppc = "done"
    /\ Len(requests) >= 3
    /\ Len(yielded) = Len(server_items)
    /\ "nextPageStart" \notin DOMAIN data
    /\ requests[2].start < limit

====
